---- MODULE Spec2Model ----
(***************************************************************************)
(* The asynchronous write pipeline of xsqlite / xmysql / xredis: a         *)
(* buffered channel of jobs, a fixed pool of worker goroutines, retry with *)
(* backoff and Close.  The three packages share the code line for line;    *)
(* line numbers below are those of src/db/xsqlite/xsqlite.go.  Also the    *)
(* helpers of src/concurrency/concurrency.go: SafeGo, WorkerPool and       *)
(* Semaphore.                                                              *)
(***************************************************************************)
EXTENDS Integers, Sequences, FiniteSets, TLC

\* ---------------------------------------------------------------- bounds
NumJobs    == 3      \* Enqueue calls made by the producers (Spec)
MaxFails   == 2      \* executions that return an error in one run (Spec)
RetryJobs  == 2      \* Enqueue calls made by the producers (RetrySpec)
RetryFails == 6      \* executions that return an error in one run (RetrySpec)
LiveFails  == 1      \* executions that return an error in one run (FairSpec)
QueueSize  == 1      \* cfg.QueueSize, the capacity of the jobs channel
NumClosers == 2      \* goroutines that call Close
NumMigrations == 2   \* migration statements given to Open (OpenSpec)
NumTasks   == 3      \* functions given to SafeGo, jobs given to WorkerPool.Submit
PoolWorkers == 2     \* workerCount of NewWorkerPool
PoolQueue  == 1      \* jobQueueSize of NewWorkerPool
SemLimit   == 2      \* limit of NewSemaphore
NumSemUsers == 4     \* goroutines that call WithSemaphore
NumLines   == 3      \* log calls made on the Logger
LogCap     == 1      \* capacity of Logger.logChan (1000 in NewLogger)
NumLogClosers == 2   \* goroutines that call Logger.Close
NumFiles   == 2      \* files given to LoadConfig
MaxConfCalls == 5    \* calls of LoadConfig and GetConfig made
Workers    == 2      \* cfg.Workers (the default of Open)
MaxTries   == 5      \* the retry ceiling of execWithRetry

JobIds   == 1..NumJobs
WorkerIds == 1..Workers
Closers  == 1..NumClosers
TaskIds  == 1..NumTasks
PoolWorkerIds == 1..PoolWorkers
SemUsers == 1..NumSemUsers
LineIds  == 1..NumLines
LogClosers == 1..NumLogClosers

NoJob == [id |-> 0, tries |-> 0]

VARIABLES
    jobs,       \* db.jobs: the buffered values of the channel, oldest first
    closed,     \* db.jobs has been closed
    cancelled,  \* db.ctx.Done() is closed
    wg,         \* db.wg: the WaitGroup counter
    released,   \* number of calls of sqldb.Close() made
    crashed,    \* the process was terminated by an unrecovered panic
    wpc,        \* worker -> "select" | "exec" | "backoff" | "resubmit" | "done" | "panicked"
    wjob,       \* worker -> the job value j it holds (NoJob when none)
    nextId,     \* number of Enqueue calls made so far
    enq,        \* job id -> "none" | "blocked" | "returned" | "panic": the Enqueue call
    cpc,        \* closer -> "idle" | "cancelled" | "wait" | "returned" | "panicked"
    cret,       \* closer -> "none" | "nil" | "err": the value Close returned
    attempts,   \* job id -> number of executions made of it (history)
    succ,       \* job id -> number of successful executions of it (history)
    fate,       \* job id -> "none" | "exhausted" | "dropped" | "cancelled" (history)
    fails,      \* number of executions that returned an error so far (history)
    relOut,     \* "none" | "nil" | "err": what sqldb.Close() returned (history)
    intr,       \* job id -> number of its executions ended by the cancellation (history)
    opc,        \* Open: "start" | "created" | "failed" | "opened"
    applied,    \* number of migrations Open has executed
    cap,        \* cfg.QueueSize: the capacity db.jobs was made with
    waited,     \* job id -> milliseconds of backoff it has waited out (history)
    \* package concurrency (src/concurrency/concurrency.go)
    sg,         \* task -> "none" | "added" | "running" | "returning" | "panicking" | "done":
                \* the goroutine SafeGo starts for it
    sgwg,       \* task -> SafeGo was given a WaitGroup for it
    cwg,        \* the counter of the WaitGroup the caller passes to SafeGo
    mainpc,     \* the caller of SafeGo: "calling" | "waiting" | "passed"
    dones,      \* task -> number of wg.Done calls made for it (history)
    pchan,      \* WorkerPool.jobChan: the buffered tasks, oldest first
    pclosed,    \* jobChan has been closed
    pwg,        \* WorkerPool.wg: the WaitGroup counter
    ppc,        \* pool worker -> "range" | "done"
    pcl,        \* the caller of WorkerPool.Close: "idle" | "wait" | "returned"
    psub,       \* number of Submit calls that have returned
    tokens,     \* Semaphore.tokens: number of buffered values
    sempc,      \* user of WithSemaphore -> "idle" | "acquiring" | "inside" |
                \* "returning" | "panicking" | "out" | "propagating"
    \* package logger (src/logger/logger.go)
    lchan,      \* Logger.logChan: the buffered lines, oldest first
    lclosed,    \* logChan has been closed
    lwg,        \* Logger.wg: the WaitGroup counter
    lrun,       \* the goroutine of run: "range" | "write" | "done"
    lheld,      \* the line run has received and is writing (0 when none)
    lwritten,   \* the lines handed to writer.Write, in order, each with the
                \* outcome of the write (history)
    wclosed,    \* number of calls of writer.Close() made
    lonce,      \* Logger.closeOnce: "fresh" | "running" | "done"
    lcl,        \* caller of Logger.Close -> "idle" | "wait" | "blocked" | "returned"
    lnext,      \* number of log calls made so far
    lres,       \* line -> "none" | "queued" | "dropped" | "panic": its log call
    \* package config (src/unnamed/part_002)
    conf,       \* the global cfg: "nil" | "empty" | "partial" | "loaded"
    confOnce,   \* the global once: "fresh" | "running" | "done"
    cfpc,       \* the caller of the package: "idle" | "loading"
    fidx,       \* number of files the running LoadConfig has decoded
    calls       \* the calls that have ended, in order: [op, res, conf] (history)

vars == <<jobs, closed, cancelled, wg, released, crashed, wpc, wjob, nextId, enq,
          cpc, cret, attempts, succ, fate, fails, relOut, intr, opc, applied, cap, waited,
          sg, sgwg, cwg, mainpc, dones, pchan, pclosed, pwg, ppc, pcl, psub, tokens, sempc,
          lchan, lclosed, lwg, lrun, lheld, lwritten, wclosed, lonce, lcl, lnext, lres,
          conf, confOnce, cfpc, fidx, calls>>

chanVars   == <<jobs, closed>>
workerVars == <<wpc, wjob, wg>>
closerVars == <<cpc, cret, released, relOut>>
prodVars   == <<nextId, enq>>
histVars   == <<attempts, succ, fate, fails>>
goVars     == <<sg, sgwg, cwg, mainpc, dones>>
poolVars   == <<pchan, pclosed, pwg, ppc, pcl, psub>>
semVars    == <<tokens, sempc>>
logVars    == <<lchan, lclosed, lwg, lrun, lheld, lwritten, wclosed, lonce, lcl, lnext, lres>>
confVars   == <<conf, confOnce, cfpc, fidx, calls>>
\* The state of the packages beside the pipeline.
concVars   == <<goVars, poolVars, semVars, logVars, confVars>>
\* What the steps of an opened pipeline leave alone.
auxVars    == <<intr, opc, applied, cap, waited, concVars>>
\* What the steps of package concurrency leave alone.
pipeVars   == <<chanVars, cancelled, workerVars, closerVars, prodVars, histVars, intr, opc, applied, cap, waited,
               logVars, confVars>>

\* ---------------------------------------------- package logger, package config
\* NewLogger: the channel is made empty, l.wg.Add(1), go l.run().
LogInit ==
    /\ lchan = <<>>
    /\ lclosed = FALSE
    /\ lwg = 1
    /\ lrun = "range"
    /\ lheld = 0
    /\ lwritten = <<>>
    /\ wclosed = 0
    /\ lonce = "fresh"
    /\ lcl = [c \in LogClosers |-> "idle"]
    /\ lnext = 0
    /\ lres = [n \in LineIds |-> "none"]

\* var ( cfg *Config; once sync.Once ): nil and unused.
ConfInit ==
    /\ conf = "nil"
    /\ confOnce = "fresh"
    /\ cfpc = "idle"
    /\ fidx = 0
    /\ calls = <<>>

\* ----------------------------------------------------- package concurrency
\* No SafeGo call made yet; NewWorkerPool(PoolWorkers, PoolQueue) has started
\* its workers; NewSemaphore(SemLimit) has made the empty token channel.
ConcInit ==
    /\ sg = [t \in TaskIds |-> "none"]
    /\ sgwg = [t \in TaskIds |-> FALSE]
    /\ cwg = 0
    /\ mainpc = "calling"
    /\ dones = [t \in TaskIds |-> 0]
    /\ pchan = <<>>
    /\ pclosed = FALSE
    /\ pwg = PoolWorkers
    /\ ppc = [w \in PoolWorkerIds |-> "range"]
    /\ pcl = "idle"
    /\ psub = 0
    /\ tokens = 0
    /\ sempc = [u \in SemUsers |-> "idle"]
    /\ LogInit
    /\ ConfInit

\* ------------------------------------------------------------------ Open
\* Open: the channel is empty and open, the context live, and cfg.Workers
\* workers have been added to the WaitGroup and started.
OpenedWith(q) ==
    /\ jobs = <<>>
    /\ closed = FALSE
    /\ cancelled = FALSE
    /\ wg = Workers
    /\ released = 0
    /\ crashed = FALSE
    /\ wpc = [w \in WorkerIds |-> "select"]
    /\ wjob = [w \in WorkerIds |-> NoJob]
    /\ nextId = 0
    /\ enq = [j \in JobIds |-> "none"]
    /\ cpc = [c \in Closers |-> "idle"]
    /\ cret = [c \in Closers |-> "none"]
    /\ attempts = [j \in JobIds |-> 0]
    /\ succ = [j \in JobIds |-> 0]
    /\ fate = [j \in JobIds |-> "none"]
    /\ fails = 0
    /\ relOut = "none"
    /\ intr = [j \in JobIds |-> 0]
    /\ opc = "opened"
    /\ applied = NumMigrations
    /\ cap = q
    /\ waited = [j \in JobIds |-> 0]
    /\ ConcInit

\* Open with cfg.QueueSize = QueueSize.
Init == OpenedWith(QueueSize)

\* ------------------------------------------------------- channel operations
\* The buffer of the channel holds cfg.QueueSize values: a send cannot
\* proceed at once.
ChanFull == Len(jobs) >= cap

\* ---------------------------------------------------------------- Enqueue
\* Enqueue as it would be if the send on a closed channel returned quietly.
EnqueueSilent(n) ==
    /\ ~crashed
    /\ nextId < n
    /\ nextId' = nextId + 1
    /\ IF closed \/ ~ChanFull
         THEN enq' = [enq EXCEPT ![nextId + 1] = "returned"]
         ELSE enq' = [enq EXCEPT ![nextId + 1] = "blocked"]
    /\ jobs' = IF closed \/ ChanFull
                 THEN jobs
                 ELSE Append(jobs, [id |-> nextId + 1, tries |-> 0])
    /\ UNCHANGED <<closed, cancelled, workerVars, closerVars, crashed, histVars, auxVars>>

\* Enqueue as it would be with a try-send that gives up on a full queue.
EnqueueDropOnFull(n) ==
    /\ ~crashed
    /\ nextId < n
    /\ nextId' = nextId + 1
    /\ IF closed
         THEN /\ enq' = [enq EXCEPT ![nextId + 1] = "panic"]
              /\ jobs' = jobs
         ELSE IF ChanFull
           THEN /\ enq' = [enq EXCEPT ![nextId + 1] = "returned"]
                /\ jobs' = jobs
           ELSE /\ enq' = [enq EXCEPT ![nextId + 1] = "returned"]
                /\ jobs' = Append(jobs, [id |-> nextId + 1, tries |-> 0])
    /\ UNCHANGED <<closed, cancelled, workerVars, closerVars, crashed, histVars, auxVars>>

\* Enqueue: j := job{query, args} (tries = 0); db.jobs <- j.
\* The send panics on a closed channel, completes when the buffer has room,
\* and blocks otherwise.  The producers make at most n calls.
Enqueue(n) ==
    /\ ~crashed
    /\ nextId < n
    /\ nextId' = nextId + 1
    /\ IF closed
         THEN /\ enq' = [enq EXCEPT ![nextId + 1] = "panic"]
              /\ jobs' = jobs
         ELSE IF ChanFull
           THEN /\ enq' = [enq EXCEPT ![nextId + 1] = "blocked"]
                /\ jobs' = jobs
           ELSE /\ enq' = [enq EXCEPT ![nextId + 1] = "returned"]
                /\ jobs' = Append(jobs, [id |-> nextId + 1, tries |-> 0])
    /\ UNCHANGED <<closed, cancelled, workerVars, closerVars, crashed, histVars, auxVars>>

\* The wake-up of a blocked producer as it would be if close let the send
\* return normally.
EnqueueWakeAccepted(j) ==
    /\ ~crashed
    /\ enq[j] = "blocked"
    /\ closed
    /\ enq' = [enq EXCEPT ![j] = "returned"]
    /\ UNCHANGED <<chanVars, cancelled, workerVars, closerVars, crashed, nextId, histVars, auxVars>>

\* A producer blocked in the send when the channel is closed panics
\* ("send on closed channel").
EnqueueWakeClosed(j) ==
    /\ ~crashed
    /\ enq[j] = "blocked"
    /\ closed
    /\ enq' = [enq EXCEPT ![j] = "panic"]
    /\ UNCHANGED <<chanVars, cancelled, workerVars, closerVars, crashed, nextId, histVars, auxVars>>

\* ----------------------------------------------------------------- worker
\* worker: case <-db.ctx.Done(): return   (defer db.wg.Done())
WorkerCtxDone(w) ==
    /\ ~crashed
    /\ wpc[w] = "select"
    /\ cancelled
    /\ wpc' = [wpc EXCEPT ![w] = "done"]
    /\ wg' = wg - 1
    /\ UNCHANGED <<chanVars, cancelled, wjob, closerVars, crashed, prodVars, histVars, auxVars>>

\* The producers blocked in the send, and the one that has waited longest
\* (calls are numbered in the order they are made).
Blocked == {j \in JobIds : enq[j] = "blocked"}
FirstBlocked == CHOOSE j \in Blocked : \A k \in Blocked : j <= k

\* The receive as it would be if it left the value in the buffer.
AfterRecvPeek == jobs

\* What a receive leaves in the buffer: the oldest value is taken and, when
\* a producer waits in the send on the open channel, its value takes the
\* freed slot in the same step.
AfterRecv ==
    IF Blocked # {} /\ ~closed
      THEN Append(Tail(jobs), [id |-> FirstBlocked, tries |-> 0])
      ELSE Tail(jobs)

\* worker: case j, ok := <-db.jobs with ok = true: a buffered value is
\* received, also from a closed channel and also when the context is done
\* (select picks among the ready cases).
WorkerRecv(w) ==
    /\ ~crashed
    /\ wpc[w] = "select"
    /\ Len(jobs) > 0
    /\ wjob' = [wjob EXCEPT ![w] = Head(jobs)]
    /\ jobs' = AfterRecv
    /\ enq' = IF Blocked # {} /\ ~closed
                THEN [enq EXCEPT ![FirstBlocked] = "returned"]
                ELSE enq
    /\ wpc' = [wpc EXCEPT ![w] = "exec"]
    /\ UNCHANGED <<closed, cancelled, wg, closerVars, crashed, nextId, histVars, auxVars>>

\* worker: case j, ok := <-db.jobs with ok = false (closed and drained): return.
WorkerChanClosed(w) ==
    /\ ~crashed
    /\ wpc[w] = "select"
    /\ closed
    /\ Len(jobs) = 0
    /\ wpc' = [wpc EXCEPT ![w] = "done"]
    /\ wg' = wg - 1
    /\ UNCHANGED <<chanVars, cancelled, wjob, closerVars, crashed, prodVars, histVars, auxVars>>

\* ---------------------------------------------------------- execWithRetry
\* execOnce returned nil: execWithRetry returns nil and the job is discarded.
ExecOk(w) ==
    /\ ~crashed
    /\ wpc[w] = "exec"
    /\ attempts' = [attempts EXCEPT ![wjob[w].id] = @ + 1]
    /\ succ' = [succ EXCEPT ![wjob[w].id] = @ + 1]
    /\ wjob' = [wjob EXCEPT ![w] = NoJob]
    /\ wpc' = [wpc EXCEPT ![w] = "select"]
    /\ UNCHANGED <<chanVars, cancelled, wg, closerVars, crashed, prodVars, fate, fails, auxVars>>

\* The guard of the retry off by one, and a guard that never retries.
MayRetryOffByOne(j) == j.tries <= MaxTries
MayRetryNever(j) == FALSE

\* The guard of the retry: if j.tries < 5.
MayRetry(j) == j.tries < MaxTries

\* execOnce returned an error: with j.tries < 5 the worker starts the timer
\* and waits in the select; otherwise execWithRetry returns the error.
\* The backend fails at most b executions.
ExecFail(w, b) ==
    /\ ~crashed
    /\ wpc[w] = "exec"
    /\ fails < b
    /\ fails' = fails + 1
    /\ attempts' = [attempts EXCEPT ![wjob[w].id] = @ + 1]
    /\ IF MayRetry(wjob[w])
         THEN /\ wpc' = [wpc EXCEPT ![w] = "backoff"]
              /\ UNCHANGED <<wjob, fate>>
         ELSE /\ wpc' = [wpc EXCEPT ![w] = "select"]
              /\ wjob' = [wjob EXCEPT ![w] = NoJob]
              /\ fate' = [fate EXCEPT ![wjob[w].id] = "exhausted"]
    /\ UNCHANGED <<chanVars, cancelled, wg, closerVars, crashed, prodVars, succ, auxVars>>

\* execOnce: ctx, cancel := context.WithTimeout(db.ctx, 10*time.Second);
\* db.sqldb.ExecContext(ctx, ...).  The context of the execution is derived
\* from db.ctx: once db.ctx is cancelled the execution in progress is
\* aborted and execOnce returns the context's error, which execWithRetry
\* treats as any other error.
ExecCancelled(w) ==
    /\ ~crashed
    /\ wpc[w] = "exec"
    /\ cancelled
    /\ intr' = [intr EXCEPT ![wjob[w].id] = @ + 1]
    /\ attempts' = [attempts EXCEPT ![wjob[w].id] = @ + 1]
    /\ IF MayRetry(wjob[w])
         THEN /\ wpc' = [wpc EXCEPT ![w] = "backoff"]
              /\ UNCHANGED <<wjob, fate>>
         ELSE /\ wpc' = [wpc EXCEPT ![w] = "select"]
              /\ wjob' = [wjob EXCEPT ![w] = NoJob]
              /\ fate' = [fate EXCEPT ![wjob[w].id] = "exhausted"]
    /\ UNCHANGED <<chanVars, cancelled, wg, closerVars, crashed, prodVars, succ, fails, opc, applied, cap, waited, concVars>>

\* The execution panics: worker and execWithRetry have no recover, so the
\* deferred wg.Done runs and the panic terminates the process.
ExecPanic(w) ==
    /\ ~crashed
    /\ wpc[w] = "exec"
    /\ attempts' = [attempts EXCEPT ![wjob[w].id] = @ + 1]
    /\ wpc' = [wpc EXCEPT ![w] = "panicked"]
    /\ wg' = wg - 1
    /\ crashed' = TRUE
    /\ UNCHANGED <<chanVars, cancelled, wjob, closerVars, prodVars, succ, fate, fails, auxVars>>

\* select: case <-db.ctx.Done(): timer.Stop(); return err.
BackoffCtxDone(w) ==
    /\ ~crashed
    /\ wpc[w] = "backoff"
    /\ cancelled
    /\ fate' = [fate EXCEPT ![wjob[w].id] = "cancelled"]
    /\ wjob' = [wjob EXCEPT ![w] = NoJob]
    /\ wpc' = [wpc EXCEPT ![w] = "select"]
    /\ UNCHANGED <<chanVars, cancelled, wg, closerVars, crashed, prodVars, attempts, succ, fails, auxVars>>

\* The timer case as it would be without j.tries++.
IncTriesForgotten(j) == j

\* j.tries++
IncTries(j) == [j EXCEPT !.tries = @ + 1]

\* math.Pow(2, float64(n)), exact for the small n the retry ceiling allows.
RECURSIVE Pow2(_)
Pow2(n) == IF n = 0 THEN 1 ELSE 2 * Pow2(n - 1)

\* The delay as it would be with the exponent taken after the increment.
BackoffMsLate(n) == Pow2(n + 1) * 100

\* wait := time.Duration(math.Pow(2, float64(j.tries))) * 100 * time.Millisecond,
\* in milliseconds.
BackoffMs(n) == Pow2(n) * 100

\* select: case <-timer.C: j.tries++ (the resubmission is the next statement).
\* The timer was made with the delay computed from j.tries before the
\* increment.
TimerFire(w) ==
    /\ ~crashed
    /\ wpc[w] = "backoff"
    /\ waited' = [waited EXCEPT ![wjob[w].id] = @ + BackoffMs(wjob[w].tries)]
    /\ wjob' = [wjob EXCEPT ![w] = IncTries(wjob[w])]
    /\ wpc' = [wpc EXCEPT ![w] = "resubmit"]
    /\ UNCHANGED <<chanVars, cancelled, wg, closerVars, crashed, prodVars, histVars,
                   intr, opc, applied, cap, concVars>>

\* The resubmission as it would be without the default case taking over on
\* a full buffer.
TrySendAlways(j) == Append(jobs, j)

\* The resubmission as it would be with the job put back at the head.
TrySendFront(j) == IF ChanFull THEN jobs ELSE <<j>> \o jobs

\* select { case db.jobs <- j: default: } with room in the buffer.
TrySend(j) == IF ChanFull THEN jobs ELSE Append(jobs, j)

\* The non-blocking resubmission on an open channel: the job is sent when the
\* buffer has room and dropped otherwise; execWithRetry returns the error.
Resubmit(w) ==
    /\ ~crashed
    /\ wpc[w] = "resubmit"
    /\ ~closed
    /\ jobs' = TrySend(wjob[w])
    /\ fate' = IF ChanFull THEN [fate EXCEPT ![wjob[w].id] = "dropped"] ELSE fate
    /\ wjob' = [wjob EXCEPT ![w] = NoJob]
    /\ wpc' = [wpc EXCEPT ![w] = "select"]
    /\ UNCHANGED <<closed, cancelled, wg, closerVars, crashed, prodVars, attempts, succ, fails, auxVars>>

\* The non-blocking resubmission on a closed channel: a send case of a select
\* panics on a closed channel ("send on closed channel"); nothing recovers it.
ResubmitClosed(w) ==
    /\ ~crashed
    /\ wpc[w] = "resubmit"
    /\ closed
    /\ wpc' = [wpc EXCEPT ![w] = "panicked"]
    /\ wg' = wg - 1
    /\ crashed' = TRUE
    /\ UNCHANGED <<chanVars, cancelled, wjob, closerVars, prodVars, histVars, auxVars>>

\* ------------------------------------------------------------------ Close
\* Close as it would be without the call of db.cancel().
CloseNoCancel(c) ==
    /\ ~crashed
    /\ cpc[c] = "idle"
    /\ cpc' = [cpc EXCEPT ![c] = "cancelled"]
    /\ UNCHANGED <<chanVars, cancelled, workerVars, cret, released, relOut, crashed, prodVars, histVars, auxVars>>

\* Close: db.cancel()
CloseCancel(c) ==
    /\ ~crashed
    /\ cpc[c] = "idle"
    /\ cancelled' = TRUE
    /\ cpc' = [cpc EXCEPT ![c] = "cancelled"]
    /\ UNCHANGED <<chanVars, workerVars, cret, released, relOut, crashed, prodVars, histVars, auxVars>>

\* Close: close(db.jobs); closing a closed channel panics.
CloseChan(c) ==
    /\ ~crashed
    /\ cpc[c] = "cancelled"
    /\ IF closed
         THEN /\ cpc' = [cpc EXCEPT ![c] = "panicked"]
              /\ closed' = closed
         ELSE /\ cpc' = [cpc EXCEPT ![c] = "wait"]
              /\ closed' = TRUE
    /\ UNCHANGED <<jobs, cancelled, workerVars, cret, released, relOut, crashed, prodVars, histVars, auxVars>>

\* Close as it would be without db.wg.Wait().
WaitSkipped == TRUE

\* db.wg.Wait() returns when the counter is zero.
WaitDone == wg = 0

\* Close as it would be if it reported the jobs it abandons.
CloseResultAbandoned(e) == IF Len(jobs) > 0 THEN "err" ELSE e

\* return db.sqldb.Close(): Close returns what the release returned.
CloseResult(e) == e

\* Close: db.wg.Wait(); return db.sqldb.Close()
\* The closer leaves Wait once every worker has run wg.Done, releases the
\* backend handle and returns the error of the release.
CloseWaitRelease(c) ==
    /\ ~crashed
    /\ cpc[c] = "wait"
    /\ WaitDone
    /\ released' = released + 1
    /\ \E e \in {"nil", "err"} :
          /\ relOut' = e
          /\ cret' = [cret EXCEPT ![c] = CloseResult(e)]
    /\ cpc' = [cpc EXCEPT ![c] = "returned"]
    /\ UNCHANGED <<chanVars, cancelled, workerVars, crashed, prodVars, histVars, auxVars>>

\* The parent context given to Open is cancelled by its owner.
ParentCancel ==
    /\ ~crashed
    /\ ~cancelled
    /\ cancelled' = TRUE
    /\ UNCHANGED <<chanVars, workerVars, closerVars, crashed, prodVars, histVars, auxVars>>

\* --------------------------------------------------------- specification
Next(n, b) ==
    \/ Enqueue(n)
    \/ \E j \in JobIds : EnqueueWakeClosed(j)
    \/ \E w \in WorkerIds : WorkerCtxDone(w)
    \/ \E w \in WorkerIds : WorkerRecv(w)
    \/ \E w \in WorkerIds : WorkerChanClosed(w)
    \/ \E w \in WorkerIds : ExecOk(w)
    \/ \E w \in WorkerIds : ExecFail(w, b)
    \/ \E w \in WorkerIds : ExecPanic(w)
    \/ \E w \in WorkerIds : BackoffCtxDone(w)
    \/ \E w \in WorkerIds : TimerFire(w)
    \/ \E w \in WorkerIds : Resubmit(w)
    \/ \E w \in WorkerIds : ResubmitClosed(w)
    \/ \E c \in Closers : CloseCancel(c)
    \/ \E c \in Closers : CloseChan(c)
    \/ \E c \in Closers : CloseWaitRelease(c)
    \/ ParentCancel

\* Three jobs, of which few executions fail.
Spec == Init /\ [][Next(NumJobs, MaxFails)]_vars

\* Two jobs, with enough failing executions to exhaust the retries of one.
RetrySpec == Init /\ [][Next(RetryJobs, RetryFails)]_vars

\* The steps of one worker goroutine.
WorkerStep(w, b) ==
    \/ WorkerCtxDone(w)
    \/ WorkerRecv(w)
    \/ WorkerChanClosed(w)
    \/ ExecOk(w)
    \/ ExecFail(w, b)
    \/ ExecPanic(w)
    \/ BackoffCtxDone(w)
    \/ TimerFire(w)
    \/ Resubmit(w)
    \/ ResubmitClosed(w)

\* The steps of a call of Close once it is made.
CloserStep(c) == CloseChan(c) \/ CloseWaitRelease(c)

\* The pipeline with the scheduling of the runtime: a goroutine that can
\* run does run (workers, woken producers, a caller inside Close), timers
\* fire, and every call of the backend returns.
FairSpec ==
    /\ Init /\ [][Next(RetryJobs, LiveFails)]_vars
    /\ \A w \in WorkerIds : WF_vars(WorkerStep(w, LiveFails))
    /\ \A j \in JobIds : WF_vars(EnqueueWakeClosed(j))
    /\ \A c \in Closers : WF_vars(CloserStep(c))

\* The steps a worker can take while Close is never called and the parent
\* context stays live.
OpenWorkerStep(w, b) ==
    \/ WorkerRecv(w)
    \/ ExecOk(w)
    \/ ExecFail(w, b)
    \/ ExecPanic(w)
    \/ TimerFire(w)
    \/ Resubmit(w)

OpenNext(n, b) ==
    \/ Enqueue(n)
    \/ \E w \in WorkerIds : WorkerRecv(w)
    \/ \E w \in WorkerIds : ExecOk(w)
    \/ \E w \in WorkerIds : ExecFail(w, b)
    \/ \E w \in WorkerIds : ExecPanic(w)
    \/ \E w \in WorkerIds : TimerFire(w)
    \/ \E w \in WorkerIds : Resubmit(w)

\* The pipeline on which Close is never called, with the same scheduling.
OpenFairSpec ==
    /\ Init /\ [][OpenNext(RetryJobs, RetryFails)]_vars
    /\ \A w \in WorkerIds : WF_vars(OpenWorkerStep(w, RetryFails))

\* ------------------------------------------------------------ vocabulary
\* The job values in the channel buffer and in the hands of the workers.
Holding(w) == wjob[w] # NoJob
Running(w) == wpc[w] \in {"select", "exec", "backoff", "resubmit"}
Returned(c) == cpc[c] = "returned"
Queued(j) == \E i \in 1..Len(jobs) : jobs[i].id = j
Held(j) == \E w \in WorkerIds : Holding(w) /\ wjob[w].id = j
InFlight == Len(jobs) + Cardinality({w \in WorkerIds : Holding(w)})

\* ------------------------------------------------------------------- C1
\* C1: Close is idempotent: of two calls of Close, none faults, the backend
\* handle is released exactly once and both calls return the same outcome.
C1_CloseIdempotent ==
    /\ \A c \in Closers : cpc[c] # "panicked"
    /\ released <= 1
    /\ \A c, d \in Closers : Returned(c) /\ Returned(d) => cret[c] = cret[d]

\* ------------------------------------------------------------------- C2
\* The producers finish before Close is called: every Enqueue call has been
\* made and has returned.
AllEnqueued(n) == nextId = n /\ \A j \in 1..n : enq[j] = "returned"

\* Close called once the producers are finished.
CloseAfterEnqueue(c, n) == AllEnqueued(n) /\ CloseCancel(c)

\* Every job succeeds, the parent context stays live, and Close is called
\* only after all Enqueue calls have returned.
DrainNext ==
    \/ Enqueue(NumJobs)
    \/ \E w \in WorkerIds : WorkerCtxDone(w)
    \/ \E w \in WorkerIds : WorkerRecv(w)
    \/ \E w \in WorkerIds : WorkerChanClosed(w)
    \/ \E w \in WorkerIds : ExecOk(w)
    \/ \E c \in Closers : CloseAfterEnqueue(c, NumJobs)
    \/ \E c \in Closers : CloseChan(c)
    \/ \E c \in Closers : CloseWaitRelease(c)

DrainSpec == Init /\ [][DrainNext]_vars

\* C2: when every job succeeds and Close is called after all Enqueue calls
\* have returned, Close returns only once every accepted job has been
\* executed, exactly once.
C2_CloseDrains ==
    (\E c \in Closers : Returned(c)) =>
        \A j \in JobIds : enq[j] = "returned" => succ[j] = 1

\* ------------------------------------------------------------------- C3
\* C3: an Enqueue call made after Close has returned ends in a failure (the
\* panic of the send), leaves the queue as it was, and its job is never
\* queued or executed.
C3_EnqueueAfterClose ==
    /\ [][ ((\E c \in Closers : Returned(c)) /\ nextId' # nextId)
             => (enq'[nextId'] = "panic" /\ jobs' = jobs) ]_vars
    /\ [](\A j \in JobIds : enq[j] = "panic" =>
             attempts[j] = 0 /\ ~Queued(j) /\ ~Held(j))

\* Close has returned and then every Enqueue call of the run has failed.
C3_Witness ==
    /\ \E c \in Closers : Returned(c)
    /\ nextId = NumJobs
    /\ \A j \in JobIds : enq[j] = "panic"

\* ------------------------------------------------------------------- C4
\* C4: a panic raised by the execution of a job is caught at the worker: no
\* worker goroutine is ended by it and the process goes on.
C4_PanicContained ==
    /\ ~crashed
    /\ \A w \in WorkerIds : wpc[w] # "panicked"

\* ------------------------------------------------------------------- C5
\* C5: at most QueueSize jobs are buffered and the jobs in flight (buffered
\* or held by a worker) number at most QueueSize + Workers.
C5_InFlightBound ==
    /\ Len(jobs) <= QueueSize
    /\ InFlight <= QueueSize + Workers

\* The bound is met: the buffer is full and every worker holds a job.
C5_Witness ==
    /\ Len(jobs) = QueueSize
    /\ \A w \in WorkerIds : Holding(w)

\* ------------------------------------------------------------------- C6
\* The counter of a job value against the executions made of the job.
TriesMatch(j, offset) ==
    /\ j.tries \in 0..MaxTries
    /\ j.tries + offset = attempts[j.id]

\* C6: the counter starts at 0 and grows by one per resubmission, so it
\* equals the number of failed executions before it; no job value carries a
\* counter above 5, and a job is given up only by its sixth execution.
C6_AttemptCounter ==
    /\ \A i \in 1..Len(jobs) : TriesMatch(jobs[i], 0)
    /\ \A w \in WorkerIds :
          /\ wpc[w] = "exec" => TriesMatch(wjob[w], 0)
          /\ wpc[w] = "backoff" => TriesMatch(wjob[w], 1) /\ wjob[w].tries < MaxTries
          /\ wpc[w] = "resubmit" => TriesMatch(wjob[w], 0)
    /\ \A j \in JobIds :
          /\ attempts[j] <= MaxTries + 1
          /\ fate[j] = "exhausted" => attempts[j] = MaxTries + 1 /\ succ[j] = 0

\* A job has failed six times and been given up.
C6_Witness ==
    \E j \in JobIds : fate[j] = "exhausted" /\ ~Queued(j) /\ ~Held(j)

\* ------------------------------------------------------------------- C7
\* The job was executed successfully, or failed all six executions.
Succeeded(j) == succ[j] = 1
Exhausted(j) == fate[j] = "exhausted" /\ attempts[j] = MaxTries + 1
Accepted(j) == enq[j] = "returned"

\* C7 as stated: while the pipeline is neither closed nor terminated, every
\* accepted job that does not fail all six executions is eventually
\* executed successfully, and no job is executed successfully twice.
C7_EventuallySucceeds ==
    /\ [](\A j \in JobIds : succ[j] <= 1)
    /\ \A j \in JobIds :
         Accepted(j) ~> (Succeeded(j) \/ Exhausted(j) \/ cancelled \/ crashed)

\* C7 amended: the same, unless a resubmission of the job found the queue
\* full and dropped it.
C7_SucceedsUnlessDropped ==
    /\ [](\A j \in JobIds : succ[j] <= 1)
    /\ \A j \in JobIds :
         Accepted(j) ~> (Succeeded(j) \/ Exhausted(j) \/ fate[j] = "dropped"
                           \/ cancelled \/ crashed)

\* A job failed, was resubmitted and then executed successfully, Close never
\* having been called.
C7_Witness ==
    /\ ~cancelled /\ ~crashed
    /\ \E j \in JobIds : succ[j] = 1 /\ attempts[j] > 1

\* ------------------------------------------------------------------- C8
\* C8: once a call of Close has returned, no worker goroutine is running.
C8_NoWorkerAfterClose ==
    (\E c \in Closers : Returned(c)) =>
        (wg = 0 /\ \A w \in WorkerIds : ~Running(w))

\* Close has returned on a pipeline whose workers had executed a job.
C8_Witness ==
    /\ \E c \in Closers : Returned(c)
    /\ \E j \in JobIds : attempts[j] > 0

\* ------------------------------------------------------------------- C9
\* C9: a producer blocked in Enqueue when the queue is closed is woken with
\* a failure (the panic of the send): from then on its call can only fail,
\* it does fail, and its job is never queued or executed.
C9_BlockedProducerFails ==
    /\ [][ \A j \in JobIds : (enq[j] = "blocked" /\ closed)
              => (enq'[j] \in {"blocked", "panic"} /\ ~Queued(j)') ]_vars
    /\ [](\A j \in JobIds : enq[j] = "panic" =>
             attempts[j] = 0 /\ ~Queued(j) /\ ~Held(j))
    /\ \A j \in JobIds :
         (enq[j] = "blocked" /\ closed) ~> (enq[j] = "panic" \/ crashed)

\* Close has closed the queue with a producer blocked in Enqueue.
C9_Witness ==
    /\ closed /\ ~crashed
    /\ \E j \in JobIds : enq[j] = "blocked"

\* ------------------------------------------------------------------ C10
\* C10: Close cancels, then closes the queue, then waits for the workers,
\* then releases the backend handle: the queue is closed only under a
\* cancelled context, and the handle is released only when the queue is
\* closed and every worker has exited.
C10_CloseOrder ==
    /\ \A c \in Closers : cpc[c] # "idle" => cancelled
    /\ \A c \in Closers : cpc[c] \in {"wait", "returned"} => closed
    /\ closed => cancelled
    /\ released > 0 => (closed /\ wg = 0 /\ \A w \in WorkerIds : ~Running(w))
    /\ \A c \in Closers : Returned(c) <=> cret[c] # "none"
    /\ (\E c \in Closers : Returned(c)) <=> released > 0

\* A caller of Close waits, the handle unreleased, while a worker still runs.
C10_Witness ==
    /\ released = 0
    /\ \E c \in Closers : cpc[c] = "wait"
    /\ \E w \in WorkerIds : wpc[w] = "exec"


\* ------------------------------------------------------------------ C11
\* The steps of a worker whose executor calls all return.
ReturningWorkerStep(w, b) ==
    \/ WorkerCtxDone(w)
    \/ WorkerRecv(w)
    \/ WorkerChanClosed(w)
    \/ ExecOk(w)
    \/ ExecFail(w, b)
    \/ BackoffCtxDone(w)
    \/ TimerFire(w)
    \/ Resubmit(w)
    \/ ResubmitClosed(w)

ReturningNext(n, b) ==
    \/ Enqueue(n)
    \/ \E j \in JobIds : EnqueueWakeClosed(j)
    \/ \E w \in WorkerIds : WorkerCtxDone(w)
    \/ \E w \in WorkerIds : WorkerRecv(w)
    \/ \E w \in WorkerIds : WorkerChanClosed(w)
    \/ \E w \in WorkerIds : ExecOk(w)
    \/ \E w \in WorkerIds : ExecFail(w, b)
    \/ \E w \in WorkerIds : BackoffCtxDone(w)
    \/ \E w \in WorkerIds : TimerFire(w)
    \/ \E w \in WorkerIds : Resubmit(w)
    \/ \E w \in WorkerIds : ResubmitClosed(w)
    \/ \E c \in Closers : CloseCancel(c)
    \/ \E c \in Closers : CloseChan(c)
    \/ \E c \in Closers : CloseWaitRelease(c)
    \/ ParentCancel

\* The pipeline whose executor calls all return (with nil or with an
\* error, never by a panic), under the scheduling of the runtime.
ReturningFairSpec ==
    /\ Init /\ [][ReturningNext(RetryJobs, LiveFails)]_vars
    /\ \A w \in WorkerIds : WF_vars(ReturningWorkerStep(w, LiveFails))
    /\ \A j \in JobIds : WF_vars(EnqueueWakeClosed(j))
    /\ \A c \in Closers : WF_vars(CloserStep(c))

\* C11: once a call of Close has cancelled the context and closed the
\* queue, and every executor call returns, a call of Close eventually
\* returns: the workers in a backoff and the workers waiting on the empty
\* queue all wake up and run wg.Done.
C11_CloseReturns ==
    (\E c \in Closers : cpc[c] = "wait") ~> (\E c \in Closers : Returned(c))


\* ------------------------------------------------------------------ C12
\* A call of Enqueue is made in this step.
EnqueueCalled == nextId' = nextId + 1

\* A worker takes the oldest queued job in this step.
Dequeued ==
    \E w \in WorkerIds :
        wpc[w] = "select" /\ Len(jobs) > 0 /\ wjob'[w] = Head(jobs) /\ wpc'[w] = "exec"

\* C12: while the queue is open, a call of Enqueue that finds fewer than
\* QueueSize jobs queued returns at once with its fresh job queued last; a
\* call that finds QueueSize jobs queued blocks and leaves the queue alone;
\* a blocked call stays blocked until a worker dequeues a job, and then its
\* fresh job is queued; no call fails while the queue is open.
C12_EnqueueBackpressure ==
    [][ /\ (EnqueueCalled /\ ~closed) =>
              IF Len(jobs) < QueueSize
                THEN /\ enq'[nextId'] = "returned"
                     /\ jobs' = Append(jobs, [id |-> nextId', tries |-> 0])
                ELSE /\ enq'[nextId'] = "blocked"
                     /\ jobs' = jobs
        /\ \A j \in JobIds :
              (enq[j] = "blocked" /\ enq'[j] # "blocked" /\ ~closed) =>
                  /\ enq'[j] = "returned"
                  /\ Dequeued
                  /\ jobs' = Append(Tail(jobs), [id |-> j, tries |-> 0])
        /\ \A j \in JobIds : enq'[j] = "panic" => closed'
      ]_vars

\* A producer is blocked on the full open queue while a worker is about to
\* dequeue.
C12_Witness ==
    /\ ~closed
    /\ Len(jobs) = QueueSize
    /\ \E j \in JobIds : enq[j] = "blocked"
    /\ \E w \in WorkerIds : wpc[w] = "select"


\* ------------------------------------------------------------------ C13
\* The worker is on the retry path: in the backoff, or about to resubmit.
Retrying(w) == wpc[w] \in {"backoff", "resubmit"}

\* C13: a worker on the retry path always gets back to its dequeue loop, or
\* has exited: the retry path never leaves it stuck.
C13_RetryReturns ==
    \A w \in WorkerIds : Retrying(w) ~> (wpc[w] \in {"select", "done"})


\* ------------------------------------------------------------------ C14
\* C14: a call of Close that returns returns what the release of the
\* backend handle returned, whatever jobs were abandoned or had failed.
C14_CloseReturnsReleaseError ==
    \A c \in Closers : Returned(c) => cret[c] = relOut

\* Close returned nil although a job was abandoned in the queue and an
\* execution had failed.
C14_Witness ==
    \E c \in Closers :
        /\ Returned(c)
        /\ cret[c] = "nil"
        /\ Len(jobs) > 0
        /\ fails > 0


\* ------------------------------------------------------------------ C19
\* C19: once db.ctx is cancelled, no worker takes a job from the queue: a
\* worker at its select stays there or exits.
C19_NoDequeueAfterCancel ==
    [][ \A w \in WorkerIds :
            (cancelled /\ wpc[w] = "select") => wpc'[w] \in {"select", "done"}
      ]_vars


\* ------------------------------------------------------------------ C20
\* The receive of a worker that sees the cancellation first whenever the
\* context is done: an execution begins only while db.ctx is live.
WorkerRecvLive(w) == ~cancelled /\ WorkerRecv(w)

\* The pipeline of xsqlite and xmysql, whose executions run under a context
\* derived from db.ctx; every execution begins before the cancellation.
CancelNext(n, b) ==
    \/ Enqueue(n)
    \/ \E j \in JobIds : EnqueueWakeClosed(j)
    \/ \E w \in WorkerIds : WorkerCtxDone(w)
    \/ \E w \in WorkerIds : WorkerRecvLive(w)
    \/ \E w \in WorkerIds : WorkerChanClosed(w)
    \/ \E w \in WorkerIds : ExecOk(w)
    \/ \E w \in WorkerIds : ExecFail(w, b)
    \/ \E w \in WorkerIds : ExecCancelled(w)
    \/ \E w \in WorkerIds : ExecPanic(w)
    \/ \E w \in WorkerIds : BackoffCtxDone(w)
    \/ \E w \in WorkerIds : TimerFire(w)
    \/ \E w \in WorkerIds : Resubmit(w)
    \/ \E w \in WorkerIds : ResubmitClosed(w)
    \/ \E c \in Closers : CloseCancel(c)
    \/ \E c \in Closers : CloseChan(c)
    \/ \E c \in Closers : CloseWaitRelease(c)
    \/ ParentCancel

CancelSpec == Init /\ [][CancelNext(RetryJobs, LiveFails)]_vars

\* C20: an execution that is in progress when db.ctx is cancelled is not
\* ended by the cancellation: it ends with the backend's own result.
C20_ExecutionNotInterrupted == \A j \in JobIds : intr[j] = 0


\* ------------------------------------------------------------------ C15
\* Open before its first statement runs: no DB value, no worker.
OpenInit ==
    /\ jobs = <<>>
    /\ closed = FALSE
    /\ cancelled = FALSE
    /\ wg = 0
    /\ released = 0
    /\ crashed = FALSE
    /\ wpc = [w \in WorkerIds |-> "unstarted"]
    /\ wjob = [w \in WorkerIds |-> NoJob]
    /\ nextId = 0
    /\ enq = [j \in JobIds |-> "none"]
    /\ cpc = [c \in Closers |-> "idle"]
    /\ cret = [c \in Closers |-> "none"]
    /\ attempts = [j \in JobIds |-> 0]
    /\ succ = [j \in JobIds |-> 0]
    /\ fate = [j \in JobIds |-> "none"]
    /\ fails = 0
    /\ relOut = "none"
    /\ intr = [j \in JobIds |-> 0]
    /\ opc = "start"
    /\ applied = 0
    /\ cap = QueueSize
    /\ waited = [j \in JobIds |-> 0]
    /\ ConcInit

openFrame == <<chanVars, cancelled, wjob, cpc, cret, relOut, crashed, prodVars, histVars, intr, cap, waited, concVars>>

\* Open: for _, m := range o.migrations: sqldb.Exec(m) returns nil.
OpenMigrate ==
    /\ opc = "start"
    /\ applied < NumMigrations
    /\ applied' = applied + 1
    /\ UNCHANGED <<openFrame, opc, wpc, wg, released>>

\* Open: sqldb.Exec(m) returns an error: _ = sqldb.Close(); return nil, err.
OpenMigrateFail ==
    /\ opc = "start"
    /\ applied < NumMigrations
    /\ released' = released + 1
    /\ opc' = "failed"
    /\ UNCHANGED <<openFrame, applied, wpc, wg>>

\* Open: ctx, cancel := context.WithCancel(parent); db := &DB{...}, after the
\* loop over the migrations.
OpenCreate ==
    /\ opc = "start"
    /\ applied = NumMigrations
    /\ opc' = "created"
    /\ UNCHANGED <<openFrame, applied, wpc, wg, released>>

\* The worker the loop of Open starts next.
NextWorker == CHOOSE w \in WorkerIds :
                  wpc[w] = "unstarted" /\ \A v \in WorkerIds : wpc[v] = "unstarted" => w <= v

\* Open as it would be with the workers started ahead of the migrations.
WorkersMayStartEarly == opc \in {"start", "created"}

\* The loop that starts the workers follows the migrations and the
\* construction of db.
WorkersMayStart == opc = "created"

\* Open: db.wg.Add(1); go db.worker()
OpenStartWorker ==
    /\ WorkersMayStart
    /\ \E w \in WorkerIds : wpc[w] = "unstarted"
    /\ wg' = wg + 1
    /\ wpc' = [wpc EXCEPT ![NextWorker] = "select"]
    /\ UNCHANGED <<openFrame, opc, applied, released>>

\* Open: return db, nil.
OpenReturn ==
    /\ opc = "created"
    /\ \A w \in WorkerIds : wpc[w] # "unstarted"
    /\ opc' = "opened"
    /\ UNCHANGED <<openFrame, applied, wpc, wg, released>>

\* The caller has db only once Open has returned it.
OpenedEnqueue(n) == opc = "opened" /\ Enqueue(n)
OpenedCloseCancel(c) == opc = "opened" /\ CloseCancel(c)

\* Open followed by the use of the pipeline it returned; every execution
\* succeeds.
OpenThenNext ==
    \/ OpenMigrate
    \/ OpenMigrateFail
    \/ OpenCreate
    \/ OpenStartWorker
    \/ OpenReturn
    \/ OpenedEnqueue(RetryJobs)
    \/ \E w \in WorkerIds : WorkerCtxDone(w)
    \/ \E w \in WorkerIds : WorkerRecv(w)
    \/ \E w \in WorkerIds : WorkerChanClosed(w)
    \/ \E w \in WorkerIds : ExecOk(w)
    \/ \E c \in Closers : OpenedCloseCancel(c)
    \/ \E c \in Closers : CloseChan(c)
    \/ \E c \in Closers : CloseWaitRelease(c)

OpenSpec == OpenInit /\ [][OpenThenNext]_vars

\* A worker goroutine has been started.
Started(w) == wpc[w] # "unstarted"

\* C15: a worker is started, and a job accepted, only after every migration
\* has been executed; when a migration fails Open returns the error with
\* no worker started, none counted in the WaitGroup, and the handle closed.
C15_InitBeforeWorkers ==
    /\ (\E w \in WorkerIds : Started(w)) => applied = NumMigrations /\ opc \in {"created", "opened"}
    /\ nextId > 0 => applied = NumMigrations /\ opc = "opened"
    /\ opc = "failed" =>
          /\ \A w \in WorkerIds : ~Started(w)
          /\ wg = 0
          /\ nextId = 0
          /\ released = 1

\* Open failed on its second migration and returned the error.
C15_Witness == opc = "failed" /\ applied = 1


\* ------------------------------------------------------------------ C17
\* The task the caller hands to SafeGo next.
NextTask == CHOOSE t \in TaskIds :
                sg[t] = "none" /\ \A u \in TaskIds : sg[u] = "none" => t <= u

\* SafeGo(fn, wg): if wg != nil { wg.Add(1) }, in the goroutine of the caller.
SafeGoAdd(useWg) ==
    /\ mainpc = "calling"
    /\ \A t \in TaskIds : sg[t] # "added"
    /\ \E t \in TaskIds : sg[t] = "none"
    /\ sg' = [sg EXCEPT ![NextTask] = "added"]
    /\ sgwg' = [sgwg EXCEPT ![NextTask] = useWg]
    /\ cwg' = IF useWg THEN cwg + 1 ELSE cwg
    /\ UNCHANGED <<mainpc, dones, poolVars, semVars, pipeVars, crashed>>

\* SafeGo: go func() { defer ...; fn() }()
SafeGoSpawn(t) ==
    /\ sg[t] = "added"
    /\ sg' = [sg EXCEPT ![t] = "running"]
    /\ UNCHANGED <<sgwg, cwg, mainpc, dones, poolVars, semVars, pipeVars, crashed>>

\* fn() returns.
SafeGoReturn(t) ==
    /\ sg[t] = "running"
    /\ sg' = [sg EXCEPT ![t] = "returning"]
    /\ UNCHANGED <<sgwg, cwg, mainpc, dones, poolVars, semVars, pipeVars, crashed>>

\* fn() panics.
SafeGoPanic(t) ==
    /\ sg[t] = "running"
    /\ sg' = [sg EXCEPT ![t] = "panicking"]
    /\ UNCHANGED <<sgwg, cwg, mainpc, dones, poolVars, semVars, pipeVars, crashed>>

\* The deferred function as it would be without the call of recover: the
\* panic goes on after wg.Done and terminates the program.
SafeGoDeferredNoRecover(t) ==
    /\ sg[t] \in {"returning", "panicking"}
    /\ sg' = [sg EXCEPT ![t] = "done"]
    /\ crashed' = (crashed \/ sg[t] = "panicking")
    /\ cwg' = IF sgwg[t] THEN cwg - 1 ELSE cwg
    /\ dones' = IF sgwg[t] THEN [dones EXCEPT ![t] = @ + 1] ELSE dones
    /\ UNCHANGED <<sgwg, mainpc, poolVars, semVars, pipeVars>>

\* The deferred function: if r := recover(); r != nil { log.Printf(...) };
\* if wg != nil { wg.Done() }.  It runs when fn returns and when fn panics;
\* recover stops the panic.
SafeGoDeferred(t) ==
    /\ sg[t] \in {"returning", "panicking"}
    /\ sg' = [sg EXCEPT ![t] = "done"]
    /\ crashed' = crashed
    /\ cwg' = IF sgwg[t] THEN cwg - 1 ELSE cwg
    /\ dones' = IF sgwg[t] THEN [dones EXCEPT ![t] = @ + 1] ELSE dones
    /\ UNCHANGED <<sgwg, mainpc, poolVars, semVars, pipeVars>>

\* The caller goes on to wg.Wait().
MainWait ==
    /\ mainpc = "calling"
    /\ \A t \in TaskIds : sg[t] # "added"
    /\ mainpc' = "waiting"
    /\ UNCHANGED <<sg, sgwg, cwg, dones, poolVars, semVars, pipeVars, crashed>>

\* wg.Wait() returns when the counter is zero.
MainPass ==
    /\ mainpc = "waiting"
    /\ cwg = 0
    /\ mainpc' = "passed"
    /\ UNCHANGED <<sg, sgwg, cwg, dones, poolVars, semVars, pipeVars, crashed>>

\* The steps of the goroutine SafeGo starts for a task.
SafeGoStep(t) == SafeGoSpawn(t) \/ SafeGoReturn(t) \/ SafeGoPanic(t) \/ SafeGoDeferred(t)

SafeGoNext ==
    \/ \E useWg \in BOOLEAN : SafeGoAdd(useWg)
    \/ \E t \in TaskIds : SafeGoSpawn(t)
    \/ \E t \in TaskIds : SafeGoReturn(t)
    \/ \E t \in TaskIds : SafeGoPanic(t)
    \/ \E t \in TaskIds : SafeGoDeferred(t)
    \/ MainWait
    \/ MainPass

\* A caller that hands functions to SafeGo, with or without its WaitGroup,
\* then waits on the WaitGroup; every function given to SafeGo ends, and a
\* goroutine that can run does run.
SafeGoSpec ==
    /\ Init /\ [][SafeGoNext]_vars
    /\ \A t \in TaskIds : WF_vars(SafeGoStep(t))
    /\ WF_vars(MainPass)

\* The goroutine of the task exists and has not run wg.Done.
Pending(t) == sg[t] \in {"added", "running", "returning", "panicking"}

\* C17: no panic of a function run by SafeGo terminates the program; the
\* WaitGroup counts exactly the tasks given with it whose goroutine has not
\* finished (a task is counted before its goroutine starts), wg.Done runs
\* exactly once for each, after a return and after a panic alike; and a
\* wg.Wait made after the SafeGo calls returns.
C17_SafeGoRecovers ==
    /\ [](/\ ~crashed
          /\ cwg = Cardinality({t \in TaskIds : sgwg[t] /\ Pending(t)})
          /\ \A t \in TaskIds :
                /\ Pending(t) => dones[t] = 0
                /\ (sg[t] = "done" /\ sgwg[t]) => dones[t] = 1)
    /\ (mainpc = "waiting" ~> mainpc = "passed")

\* The caller waits in wg.Wait() on the last task it gave with the
\* WaitGroup, whose function has panicked, while another has finished.
C17_Witness ==
    /\ mainpc = "waiting"
    /\ cwg = 1
    /\ \E t \in TaskIds : sgwg[t] /\ sg[t] = "panicking"
    /\ \E t \in TaskIds : sgwg[t] /\ sg[t] = "done"


\* ------------------------------------------------------------------ C16
\* Submit: p.jobChan <- job.  The caller submits its jobs one after the
\* other, then calls Close; a send on the full channel completes once a
\* worker has taken a job.
PoolSubmit ==
    /\ pcl = "idle"
    /\ psub < NumTasks
    /\ Len(pchan) < PoolQueue
    /\ pchan' = Append(pchan, psub + 1)
    /\ psub' = psub + 1
    /\ UNCHANGED <<pclosed, pwg, ppc, pcl, goVars, semVars, pipeVars, crashed>>

\* NewWorkerPool, worker: for job := range pool.jobChan { SafeGo(job, nil) }:
\* the worker receives a job and starts a goroutine for it, with no
\* WaitGroup, then goes on with the loop.
PoolWorkerRecv(w) ==
    /\ ppc[w] = "range"
    /\ Len(pchan) > 0
    /\ pchan' = Tail(pchan)
    /\ sg' = [sg EXCEPT ![Head(pchan)] = "running"]
    /\ sgwg' = [sgwg EXCEPT ![Head(pchan)] = FALSE]
    /\ UNCHANGED <<pclosed, pwg, ppc, pcl, psub, cwg, mainpc, dones, semVars, pipeVars, crashed>>

\* worker: the range ends on the closed and drained channel; defer pool.wg.Done().
PoolWorkerExit(w) ==
    /\ ppc[w] = "range"
    /\ pclosed
    /\ Len(pchan) = 0
    /\ ppc' = [ppc EXCEPT ![w] = "done"]
    /\ pwg' = pwg - 1
    /\ UNCHANGED <<pchan, pclosed, pcl, psub, goVars, semVars, pipeVars, crashed>>

\* Close: close(p.jobChan)
PoolClose ==
    /\ pcl = "idle"
    /\ pclosed' = TRUE
    /\ pcl' = "wait"
    /\ UNCHANGED <<pchan, pwg, ppc, psub, goVars, semVars, pipeVars, crashed>>

\* Close: p.wg.Wait() returns when the counter is zero.
PoolCloseReturn ==
    /\ pcl = "wait"
    /\ pwg = 0
    /\ pcl' = "returned"
    /\ UNCHANGED <<pchan, pclosed, pwg, ppc, psub, goVars, semVars, pipeVars, crashed>>

PoolNext ==
    \/ PoolSubmit
    \/ \E w \in PoolWorkerIds : PoolWorkerRecv(w)
    \/ \E w \in PoolWorkerIds : PoolWorkerExit(w)
    \/ \E t \in TaskIds : SafeGoReturn(t)
    \/ \E t \in TaskIds : SafeGoPanic(t)
    \/ \E t \in TaskIds : SafeGoDeferred(t)
    \/ PoolClose
    \/ PoolCloseReturn

\* A pool, its caller (Submit calls, then Close) and the submitted jobs.
PoolSpec == Init /\ [][PoolNext]_vars

\* The job has been submitted and has finished executing.
Finished(t) == sg[t] = "done"

\* C16: when WorkerPool.Close has returned, every job submitted before has
\* finished executing.
C16_CloseWaitsForJobs ==
    pcl = "returned" => \A t \in 1..psub : Finished(t)


\* ------------------------------------------------------------------ C18
\* WithSemaphore is called: s.Acquire() begins its send on s.tokens.
SemEnter(u) ==
    /\ sempc[u] = "idle"
    /\ sempc' = [sempc EXCEPT ![u] = "acquiring"]
    /\ UNCHANGED <<tokens, goVars, poolVars, pipeVars, crashed>>

\* Acquire: s.tokens <- struct{}{} completes when the buffer (capacity
\* limit) has room; defer s.Release() is registered and fn() starts.
SemAcquire(u) ==
    /\ sempc[u] = "acquiring"
    /\ tokens < SemLimit
    /\ tokens' = tokens + 1
    /\ sempc' = [sempc EXCEPT ![u] = "inside"]
    /\ UNCHANGED <<goVars, poolVars, pipeVars, crashed>>

\* fn() returns.
SemReturn(u) ==
    /\ sempc[u] = "inside"
    /\ sempc' = [sempc EXCEPT ![u] = "returning"]
    /\ UNCHANGED <<tokens, goVars, poolVars, pipeVars, crashed>>

\* fn() panics.
SemPanic(u) ==
    /\ sempc[u] = "inside"
    /\ sempc' = [sempc EXCEPT ![u] = "panicking"]
    /\ UNCHANGED <<tokens, goVars, poolVars, pipeVars, crashed>>

\* WithSemaphore as it would be with s.Release() called after fn() and not
\* deferred.
ReleasesOnReturn(u) == sempc[u] = "returning"

\* defer s.Release(): the release runs on either exit of fn.
Releases(u) == sempc[u] \in {"returning", "panicking"}

\* The deferred Release: <-s.tokens takes one value; WithSemaphore returns,
\* or the panic goes on to the caller.
SemDeferred(u) ==
    /\ sempc[u] \in {"returning", "panicking"}
    /\ tokens > 0
    /\ tokens' = IF Releases(u) THEN tokens - 1 ELSE tokens
    /\ sempc' = [sempc EXCEPT ![u] = IF sempc[u] = "returning" THEN "out" ELSE "propagating"]
    /\ UNCHANGED <<goVars, poolVars, pipeVars, crashed>>

SemNext ==
    \/ \E u \in SemUsers : SemEnter(u)
    \/ \E u \in SemUsers : SemAcquire(u)
    \/ \E u \in SemUsers : SemReturn(u)
    \/ \E u \in SemUsers : SemPanic(u)
    \/ \E u \in SemUsers : SemDeferred(u)

\* A semaphore of limit SemLimit used through WithSemaphore.
SemSpec == Init /\ [][SemNext]_vars

\* The callers between Acquire and Release, and those whose fn is running.
Holders == {u \in SemUsers : sempc[u] \in {"inside", "returning", "panicking"}}
InsideFn == {u \in SemUsers : sempc[u] = "inside"}

\* C18: the number of tokens held is between 0 and the limit and is the
\* number of callers between Acquire and Release, so at most limit
\* functions run inside WithSemaphore; a caller whose Acquire finds limit
\* tokens held stays blocked in that step; and a caller leaves WithSemaphore,
\* by a return or by a panic, with its token released.
C18_SemaphoreBound ==
    /\ [](/\ tokens \in 0..SemLimit
          /\ tokens = Cardinality(Holders)
          /\ Cardinality(InsideFn) <= SemLimit)
    /\ [][ \A u \in SemUsers :
              /\ (sempc[u] = "acquiring" /\ tokens = SemLimit) => sempc'[u] = "acquiring"
              /\ (sempc[u] \in {"returning", "panicking"} /\ sempc'[u] # sempc[u]) =>
                     tokens' = tokens - 1
         ]_vars

\* limit tokens are held, a caller is blocked in Acquire, and a caller whose
\* function panicked has left with its token released.
C18_Witness ==
    /\ tokens = SemLimit
    /\ \E u \in SemUsers : sempc[u] = "acquiring"
    /\ \E u \in SemUsers : sempc[u] = "propagating"


\* ------------------------------------------------------------------ C21
\* The worker makes its resubmission on the open queue in this step.
ResubmitStep(w) == wpc[w] = "resubmit" /\ ~closed /\ wpc'[w] # "resubmit"

Delays == <<100, 200, 400, 800, 1600>>

\* The backoff timer of the worker fires in this step.
TimerFired(w) == wpc[w] = "backoff" /\ wpc'[w] = "resubmit"

\* C22: the backoff a job with attempt counter n waits out is 100 ms * 2^n
\* (100, 200, 400, 800, 1600 ms for n = 0..4), and a job that starts its
\* attempt 3 has waited 700 ms of backoff in all.
C22_BackoffDelays ==
    /\ [][ \A w \in WorkerIds : TimerFired(w) =>
               /\ wjob[w].tries \in 0..4
               /\ waited'[wjob[w].id] - waited[wjob[w].id] = Delays[wjob[w].tries + 1]
         ]_vars
    /\ [](\A w \in WorkerIds :
             /\ (wpc[w] = "exec" /\ wjob[w].tries = 1) => waited[wjob[w].id] = 100
             /\ (wpc[w] = "exec" /\ wjob[w].tries = 3) => waited[wjob[w].id] = 700
             /\ (wpc[w] = "exec" /\ wjob[w].tries = 5) => waited[wjob[w].id] = 3100)

\* A job is in its attempt 3 after failing attempts 0, 1 and 2.
C22_Witness ==
    \E w \in WorkerIds :
        /\ wpc[w] = "exec"
        /\ wjob[w].tries = 3
        /\ attempts[wjob[w].id] = 3
        /\ waited[wjob[w].id] = 700


\* ------------------------------------------------------------------ C23
\* A queue with room for a retried job behind a queued one.
WideQueue == QueueSize + 1

\* The pipeline opened with the wider queue, on which Close is never called.
OrderSpec == OpenedWith(WideQueue) /\ [][OpenNext(NumJobs, LiveFails)]_vars

\* The worker takes a job from the queue in this step.
DequeueStep(w) == wpc[w] = "select" /\ wpc'[w] = "exec"

\* xs without its first n elements.
Drop(xs, n) == SubSeq(xs, n + 1, Len(xs))

\* C23: a worker dequeues only while it holds no job, and it takes the
\* oldest queued job; every step leaves the queued jobs in their order,
\* removing at the head and adding at the back only; a retried job that is
\* resubmitted with room is queued behind every job queued at that moment.
C23_FifoAndOneAtATime ==
    [][ /\ \A w \in WorkerIds : DequeueStep(w) =>
              /\ wjob[w] = NoJob
              /\ wjob'[w] = Head(jobs)
        /\ \E n \in 0..1 :
              /\ n <= Len(jobs)
              /\ Len(jobs') >= Len(jobs) - n
              /\ SubSeq(jobs', 1, Len(jobs) - n) = Drop(jobs, n)
        /\ \A w \in WorkerIds : (ResubmitStep(w) /\ Len(jobs) < cap) =>
              /\ Len(jobs') = Len(jobs) + 1
              /\ SubSeq(jobs', 1, Len(jobs)) = jobs
              /\ jobs'[Len(jobs')].id = wjob[w].id
      ]_vars

\* Job 2, enqueued after job 1, has completed while job 1 is still in its
\* first execution on the other worker.
C23_Witness ==
    /\ succ[2] = 1
    /\ succ[1] = 0
    /\ attempts[1] = 0
    /\ \E w \in WorkerIds : wpc[w] = "exec" /\ wjob[w].id = 1


\* ------------------------------------------------------------------ C27
\* C27: no worker sends on db.jobs once Close has closed it: a worker about
\* to resubmit never faults, it sends (or drops) on the open queue or gives
\* the resubmission up.
C27_NoSendAfterClose ==
    [][ \A w \in WorkerIds :
            wpc[w] = "resubmit" => wpc'[w] \in {"resubmit", "select", "done"}
      ]_vars


\* ------------------------------------------------------------------ C28
\* The places that hold job j: queue slots and workers.
Places(j) ==
    Cardinality({i \in 1..Len(jobs) : jobs[i].id = j})
      + Cardinality({w \in WorkerIds : wjob[w].id = j})

\* C28: every job is in at most one place (a queue slot or a worker, which
\* executes it or waits out its backoff), so no two workers execute it at
\* once, and it is executed at most MaxTries + 1 = 6 times in all.
C28_NoDuplicates ==
    \A j \in JobIds :
        /\ Places(j) <= 1
        /\ Cardinality({w \in WorkerIds : wpc[w] = "exec" /\ wjob[w].id = j}) <= 1
        /\ attempts[j] <= MaxTries + 1

\* A job has been executed six times and is gone, while the other job is
\* held by a worker.
C28_Witness ==
    \E j \in JobIds :
        /\ attempts[j] = MaxTries + 1
        /\ Places(j) = 0
        /\ \E k \in JobIds \ {j} : Places(k) = 1


\* ------------------------------------------------------------------ C26
\* The submitted jobs whose function is running.
Executing == {t \in TaskIds : sg[t] = "running"}

\* C26: at most PoolWorkers submitted jobs execute at the same time.
C26_FixedSizePool == Cardinality(Executing) <= PoolWorkers


\* ---------------------------------------------------------- package logger
\* What the steps of the logger leave alone.
nonLogVars == <<chanVars, cancelled, workerVars, closerVars, prodVars, histVars, intr,
                opc, applied, cap, waited, goVars, poolVars, semVars, confVars>>

\* The channel as it would be with no bound on its buffer.
LogChanFullNever == FALSE

\* logChan (made with capacity 1000) cannot take a value at once.
LogChanFull == Len(lchan) >= LogCap

\* log: select { case l.logChan <- formatted: default: ... }.  The send case
\* panics on a closed channel; on the open channel the line is queued when
\* the buffer has room and dropped (reported on stderr) otherwise.
LogCall ==
    /\ ~crashed
    /\ lnext < NumLines
    /\ lnext' = lnext + 1
    /\ IF lclosed
         THEN /\ lres' = [lres EXCEPT ![lnext + 1] = "panic"]
              /\ crashed' = TRUE
              /\ lchan' = lchan
         ELSE IF LogChanFull
           THEN /\ lres' = [lres EXCEPT ![lnext + 1] = "dropped"]
                /\ lchan' = lchan
                /\ crashed' = crashed
           ELSE /\ lres' = [lres EXCEPT ![lnext + 1] = "queued"]
                /\ lchan' = Append(lchan, lnext + 1)
                /\ crashed' = crashed
    /\ UNCHANGED <<lclosed, lwg, lrun, lheld, lwritten, wclosed, lonce, lcl, nonLogVars>>

\* run: for msg := range l.logChan receives the oldest line.
LogRecv ==
    /\ ~crashed
    /\ lrun = "range"
    /\ Len(lchan) > 0
    /\ lheld' = Head(lchan)
    /\ lchan' = Tail(lchan)
    /\ lrun' = "write"
    /\ UNCHANGED <<lclosed, lwg, lwritten, wclosed, lonce, lcl, lnext, lres, nonLogVars, crashed>>

\* run: l.writer.Write([]byte(msg)); an error is printed and the loop goes on.
LogWrite(ok) ==
    /\ ~crashed
    /\ lrun = "write"
    /\ lwritten' = Append(lwritten, [line |-> lheld, ok |-> ok])
    /\ lheld' = 0
    /\ lrun' = "range"
    /\ UNCHANGED <<lchan, lclosed, lwg, wclosed, lonce, lcl, lnext, lres, nonLogVars, crashed>>

\* run: the range ends on the closed and drained channel; defer l.wg.Done().
LogRunExit ==
    /\ ~crashed
    /\ lrun = "range"
    /\ lclosed
    /\ Len(lchan) = 0
    /\ lrun' = "done"
    /\ lwg' = lwg - 1
    /\ UNCHANGED <<lchan, lclosed, lheld, lwritten, wclosed, lonce, lcl, lnext, lres, nonLogVars, crashed>>

\* Close: l.closeOnce.Do(func() { close(l.logChan); ... }).  The first caller
\* runs the function and closes the channel (closing a closed channel
\* panics); a caller that arrives while the function runs waits for it; a
\* caller that arrives after it returns at once.
LogCloseEnter(c) ==
    /\ ~crashed
    /\ lcl[c] = "idle"
    /\ IF lonce = "fresh"
         THEN IF lclosed
                THEN /\ lcl' = [lcl EXCEPT ![c] = "panicked"]
                     /\ crashed' = TRUE
                     /\ UNCHANGED <<lonce, lclosed>>
                ELSE /\ lonce' = "running"
                     /\ lclosed' = TRUE
                     /\ lcl' = [lcl EXCEPT ![c] = "wait"]
                     /\ crashed' = crashed
         ELSE /\ lcl' = [lcl EXCEPT ![c] = IF lonce = "running" THEN "blocked" ELSE "returned"]
              /\ UNCHANGED <<lonce, lclosed, crashed>>
    /\ UNCHANGED <<lchan, lwg, lrun, lheld, lwritten, wclosed, lnext, lres, nonLogVars>>

\* Close as it would be without l.wg.Wait().
LogWaitSkipped == TRUE

\* l.wg.Wait() returns when the counter is zero.
LogWaitDone == lwg = 0

\* Close: l.wg.Wait(); _ = l.writer.Close(); the Once is done.
LogCloseFinish(c) ==
    /\ ~crashed
    /\ lcl[c] = "wait"
    /\ LogWaitDone
    /\ wclosed' = wclosed + 1
    /\ lonce' = "done"
    /\ lcl' = [lcl EXCEPT ![c] = "returned"]
    /\ UNCHANGED <<lchan, lclosed, lwg, lrun, lheld, lwritten, lnext, lres, nonLogVars, crashed>>

\* A caller waiting in closeOnce.Do returns once the function has run.
LogCloseUnblock(c) ==
    /\ ~crashed
    /\ lcl[c] = "blocked"
    /\ lonce = "done"
    /\ lcl' = [lcl EXCEPT ![c] = "returned"]
    /\ UNCHANGED <<lchan, lclosed, lwg, lrun, lheld, lwritten, wclosed, lonce, lnext, lres,
                   nonLogVars, crashed>>

LoggerNext ==
    \/ LogCall
    \/ LogRecv
    \/ \E ok \in BOOLEAN : LogWrite(ok)
    \/ LogRunExit
    \/ \E c \in LogClosers : LogCloseEnter(c)
    \/ \E c \in LogClosers : LogCloseFinish(c)
    \/ \E c \in LogClosers : LogCloseUnblock(c)

\* A Logger, the goroutines that log through it and those that close it.
LoggerSpec == Init /\ [][LoggerNext]_vars

\* The lines accepted into the channel among the first n, in order.
RECURSIVE QueuedUpTo(_)
QueuedUpTo(n) ==
    IF n = 0 THEN <<>>
    ELSE IF lres[n] = "queued" THEN Append(QueuedUpTo(n - 1), n) ELSE QueuedUpTo(n - 1)

\* The lines handed to the writer, in order.
WrittenLines == [i \in 1..Len(lwritten) |-> lwritten[i].line]

\* The line run holds, as a sequence.
HeldLine == IF lheld = 0 THEN <<>> ELSE <<lheld>>

\* ------------------------------------------------------------------ C24
\* C24: however many callers close the Logger, none faults, the writer is
\* closed at most once, a call of Close returns only when it has been
\* closed, and it is closed only when the goroutine of run has ended with
\* every accepted line handed to the writer.
C24_LoggerCloseOnce ==
    /\ \A c \in LogClosers : lcl[c] # "panicked"
    /\ wclosed <= 1
    /\ \A c \in LogClosers : lcl[c] = "returned" => wclosed = 1
    /\ wclosed = 1 =>
          /\ lclosed
          /\ lrun = "done"
          /\ WrittenLines = QueuedUpTo(lnext)

\* Both callers of Close have returned, one of them after waiting for the
\* other, and two accepted lines were written before the writer was closed.
C24_Witness ==
    /\ \A c \in LogClosers : lcl[c] = "returned"
    /\ wclosed = 1
    /\ Len(lwritten) >= 2


\* ------------------------------------------------------------------ C25
\* A log call on the open channel, seen as one step.
LogCallStep == lnext' = lnext + 1 /\ ~lclosed

C29_LogAfterCloseSafe == \A n \in LineIds : lres[n] # "panic"


\* ---------------------------------------------------------- package config
\* What the steps of the config package leave alone.
nonConfVars == <<chanVars, cancelled, workerVars, closerVars, prodVars, histVars, intr,
                 opc, applied, cap, waited, goVars, poolVars, semVars, logVars>>

\* What a finished call leaves in the record of calls.
CallReturns(op, res) == Append(calls, [op |-> op, res |-> res, files |-> fidx])

\* LoadConfig: var err error; once.Do(...).  The first call enters the
\* function and sets cfg = &Config{}; any later call skips it and returns
\* (cfg, nil), err being the fresh nil of that call.
LoadStart ==
    /\ ~crashed
    /\ cfpc = "idle"
    /\ Len(calls) < MaxConfCalls
    /\ IF confOnce = "fresh"
         THEN /\ confOnce' = "running"
              /\ conf' = "set"
              /\ fidx' = 0
              /\ cfpc' = "loading"
              /\ calls' = calls
         ELSE /\ calls' = CallReturns("load", "nil")
              /\ UNCHANGED <<conf, confOnce, cfpc, fidx>>
    /\ UNCHANGED <<nonConfVars, crashed>>

\* The loop body for a file that exists and decodes into cfg.
LoadFileOk ==
    /\ ~crashed
    /\ cfpc = "loading"
    /\ fidx < NumFiles
    /\ fidx' = fidx + 1
    /\ UNCHANGED <<conf, confOnce, cfpc, calls, nonConfVars, crashed>>

\* The loop body for a file that is missing (os.Stat) or does not decode
\* (toml.DecodeFile): err is set and the function returns, cfg staying as
\* the files before it left it; the Once is done and the call returns
\* (cfg, err).
LoadFileFails ==
    /\ ~crashed
    /\ cfpc = "loading"
    /\ fidx < NumFiles
    /\ confOnce' = "done"
    /\ cfpc' = "idle"
    /\ calls' = CallReturns("load", "err")
    /\ UNCHANGED <<conf, fidx, nonConfVars, crashed>>

\* The list of files is exhausted (it has as many files as were decoded):
\* the function returns with err = nil and the call returns (cfg, nil).
LoadDone ==
    /\ ~crashed
    /\ cfpc = "loading"
    /\ confOnce' = "done"
    /\ cfpc' = "idle"
    /\ calls' = CallReturns("load", "nil")
    /\ UNCHANGED <<conf, fidx, nonConfVars, crashed>>

\* GetConfig: panics when cfg == nil, returns cfg otherwise.
GetConfig ==
    /\ ~crashed
    /\ cfpc = "idle"
    /\ Len(calls) < MaxConfCalls
    /\ IF conf = "nil"
         THEN calls' = CallReturns("get", "panic") /\ crashed' = TRUE
         ELSE calls' = CallReturns("get", "cfg") /\ crashed' = crashed
    /\ UNCHANGED <<conf, confOnce, cfpc, fidx, nonConfVars>>

ConfigNext ==
    \/ LoadStart
    \/ LoadFileOk
    \/ LoadFileFails
    \/ LoadDone
    \/ GetConfig

\* A program calling LoadConfig and GetConfig one call after another.
ConfigSpec == Init /\ [][ConfigNext]_vars

\* ------------------------------------------------------------------ C30
\* C30: after a LoadConfig call that returned an error every later
\* LoadConfig call returns an error and every later GetConfig call panics,
\* and a GetConfig call returns a configuration only after a LoadConfig call
\* that returned no error.
C30_FailedLoadNotInitialized ==
    \A j \in 1..Len(calls) :
        /\ \A i \in 1..(j - 1) :
              (calls[i].op = "load" /\ calls[i].res = "err") =>
                  /\ calls[j].op = "load" => calls[j].res = "err"
                  /\ calls[j].op = "get" => calls[j].res = "panic"
        /\ (calls[j].op = "get" /\ calls[j].res = "cfg") =>
              \E i \in 1..(j - 1) : calls[i].op = "load" /\ calls[i].res = "nil"

====
